---- MODULE Spec2Model ----
(***************************************************************************)
(* Leave Buddy (src/app.py): a Streamlit script that records attendance    *)
(* and leave submissions in a hosted Pinecone index and lists attendance   *)
(* by a similarity query filtered on the client.                           *)
(*                                                                         *)
(* One script run (a Streamlit rerun) is modelled as a sequence of steps,  *)
(* one per external call, so that the order and number of the calls made   *)
(* by a button action are visible in the state.  The hosted services       *)
(* (embedding, index, chat) answer nondeterministically: every call either *)
(* returns or raises.                                                      *)
(*                                                                         *)
(* Strings the code compares or parses (ISO dates, clock times) are        *)
(* sequences of one-character strings; other strings are TLA+ strings.     *)
(***************************************************************************)
EXTENDS Integers, Sequences, FiniteSets, TLC

(***************************************************************************)
(* Bounds of the model.                                                    *)
(***************************************************************************)
\* number of distinct readings of datetime.now() the submissions can get
MaxStamps == 2
(***************************************************************************)
(* Program constants.                                                      *)
(***************************************************************************)
\* top_k of the index query
TopK == 10
\* None where the code expects a list (an embedding) or a parsed time
None == <<>>

\* keys of NAME_EMAIL_MAPPING offered by the select boxes (two of the six)
Names == {"Nandhakumar", "Dhanush"}

NAME_EMAIL_MAPPING ==
    [n \in Names |-> IF n = "Nandhakumar" THEN "nandhakumar@klmsolutions.in"
                                          ELSE "dhanush@klmsolutions.in"]

(***************************************************************************)
(* Strings as character sequences.                                         *)
(***************************************************************************)
DigitChars == <<"0", "1", "2", "3", "4", "5", "6", "7", "8", "9">>

DigitChar(n) == DigitChars[n + 1]

IsDigit(c) == \E i \in 1..10 : DigitChars[i] = c

DigitVal(c) == (CHOOSE i \in 1..10 : DigitChars[i] = c) - 1

\* code point order of the characters that occur in the compared strings
CodePoint(c) ==
    IF c = "-" THEN 45
    ELSE IF c = "/" THEN 47
    ELSE IF IsDigit(c) THEN 48 + DigitVal(c)
    ELSE IF c = ":" THEN 58
    ELSE 65

\* Python's str <= str: lexicographic by code point, a proper prefix is smaller
RECURSIVE StrLe(_, _)
StrLe(a, b) ==
    IF a = <<>> THEN TRUE
    ELSE IF b = <<>> THEN FALSE
    ELSE IF CodePoint(Head(a)) < CodePoint(Head(b)) THEN TRUE
    ELSE IF CodePoint(Head(a)) > CodePoint(Head(b)) THEN FALSE
    ELSE StrLe(Tail(a), Tail(b))

Pad2(n) == <<DigitChar(n \div 10), DigitChar(n % 10)>>

Pad4(n) == <<DigitChar(n \div 1000), DigitChar((n \div 100) % 10),
             DigitChar((n \div 10) % 10), DigitChar(n % 10)>>

\* datetime.date.isoformat(): "YYYY-MM-DD"
date_isoformat(d) == Pad4(d.year) \o <<"-">> \o Pad2(d.month) \o <<"-">> \o Pad2(d.day)

\* datetime.time.isoformat() of a time without microseconds: "HH:MM:SS"
time_isoformat(t) == Pad2(t.hour) \o <<":">> \o Pad2(t.minute) \o <<":">> \o Pad2(t.second)

(***************************************************************************)
(* calculate_working_hours                                                 *)
(***************************************************************************)
\* the fields of s between the separators ":"
RECURSIVE SplitColon(_, _)
SplitColon(s, cur) ==
    IF s = <<>> THEN <<cur>>
    ELSE IF Head(s) = ":" THEN <<cur>> \o SplitColon(Tail(s), <<>>)
    ELSE SplitColon(Tail(s), Append(cur, Head(s)))

FieldOk(f) == Len(f) \in {1, 2} /\ \A i \in 1..Len(f) : IsDigit(f[i])

FieldVal(f) == IF Len(f) = 1 THEN DigitVal(f[1]) ELSE 10 * DigitVal(f[1]) + DigitVal(f[2])

\* datetime.strptime(s, "%H:%M:%S"): <<seconds since midnight>>, or None for a
\* ValueError (no match, unconverted data, second outside 0..59)
strptime(s) ==
    LET f == SplitColon(s, <<>>) IN
    IF Len(f) = 3 /\ FieldOk(f[1]) /\ FieldOk(f[2]) /\ FieldOk(f[3])
       /\ FieldVal(f[1]) <= 23 /\ FieldVal(f[2]) <= 59 /\ FieldVal(f[3]) <= 59
    THEN <<FieldVal(f[1]) * 3600 + FieldVal(f[2]) * 60 + FieldVal(f[3])>>
    ELSE None

Max(a, b) == IF a >= b THEN a ELSE b

\* max(0, duration.total_seconds() / 3600) without the clamp
calculate_working_hours_unclamped(entry_time, exit_time) ==
    LET entry == strptime(entry_time)
        exit  == strptime(exit_time)
    IN  IF entry = None \/ exit = None THEN 0 ELSE exit[1] - entry[1]

\* The value returned is duration.total_seconds() / 3600 clamped at 0; the
\* model keeps the numerator, a number of seconds, over the fixed divisor.
calculate_working_hours(entry_time, exit_time) ==
    LET entry == strptime(entry_time)
        exit  == strptime(exit_time)
    IN  IF entry = None \/ exit = None THEN 0 ELSE Max(0, exit[1] - entry[1])

(***************************************************************************)
(* Form inputs.                                                            *)
(***************************************************************************)
Date(y, m, d) == [year |-> y, month |-> m, day |-> d]

Time(h, m, s) == [hour |-> h, minute |-> m, second |-> s]

\* values of the date pickers
Dates == {Date(2024, 1, 9), Date(2024, 1, 10)}

\* values of the Daily Attendance form: name, date, entry time, exit time
AttendanceForms ==
    { <<"Nandhakumar", Date(2024, 1, 9), Time(9, 0, 0), Time(17, 30, 0)>>,
      <<"Dhanush", Date(2024, 1, 10), Time(9, 0, 0), Time(8, 0, 0)>> }

\* values of the Leave Request form
LeaveNames == {"Dhanush"}

LeaveDates == {Date(2024, 1, 10)}

\* texts typed into "Purpose of Leave"
Purposes == {"", "family event"}

\* readings of datetime.now(), a naive local wall-clock time: it is neither
\* monotonic nor unique, so two submissions can read the same value
Stamps == (TopK + 1)..(TopK + MaxStamps)

\* embeddings returned by the embedding service (one-dimensional lists)
Vectors == {<<1>>, <<2>>}

(***************************************************************************)
(* The hosted index.                                                       *)
(***************************************************************************)
EmptyIndex == [i \in {} |-> 0]

LeaveData(timestamp, name, leave_from, leave_to, purpose) ==
    [ timestamp    |-> timestamp,
      type         |-> "leave",
      name         |-> name,
      email        |-> NAME_EMAIL_MAPPING[name],
      leave_from   |-> date_isoformat(leave_from),
      leave_to     |-> date_isoformat(leave_to),
      leave_type   |-> "Annual Leave",
      purpose      |-> purpose,
      permitted_by |-> "" ]

AttendanceData(timestamp, name, entry_date, entry_time, exit_time) ==
    [ timestamp  |-> timestamp,
      type       |-> "attendance",
      name       |-> name,
      email      |-> NAME_EMAIL_MAPPING[name],
      entry_date |-> date_isoformat(entry_date),
      entry_time |-> time_isoformat(entry_time),
      exit_time  |-> time_isoformat(exit_time) ]

\* The index "leave-buddy-index" is never created by the script: it exists
\* before the first run and keeps what earlier sessions stored.  OldIndex is
\* such a content: TopK leave requests.
OldIndex ==
    [i \in 1..TopK |->
        [ vector   |-> <<1>>,
          metadata |-> LeaveData(i, "Nandhakumar", Date(2024, 1, 9),
                                 Date(2024, 1, 10), "family event") ]]

\* index.upsert(vectors=[(id, vector, metadata)]): writes the record under id,
\* replacing the one the id held
upsert(db0, id, vec, metadata) ==
    [i \in DOMAIN db0 \cup {id} |->
        IF i = id THEN [vector |-> vec, metadata |-> metadata] ELSE db0[i]]

Dist(v, q) == IF v[1] >= q[1] THEN v[1] - q[1] ELSE q[1] - v[1]

\* the ids of S from the nearest to the farthest of q, ties by id
RECURSIVE Ranked(_, _, _)
Ranked(db0, S, q) ==
    IF S = {} THEN <<>>
    ELSE LET best == CHOOSE i \in S : \A j \in S :
                       \/ Dist(db0[i].vector, q) < Dist(db0[j].vector, q)
                       \/ /\ Dist(db0[i].vector, q) = Dist(db0[j].vector, q)
                          /\ i <= j
         IN  <<best>> \o Ranked(db0, S \ {best}, q)

Min(a, b) == IF a <= b THEN a ELSE b

\* index.query(vector=q, top_k=k, include_metadata=True)['matches']
query(db0, q, k) ==
    LET ids == Ranked(db0, DOMAIN db0, q)
    IN  [n \in 1..Min(k, Len(ids)) |-> [id |-> ids[n], metadata |-> db0[ids[n]].metadata]]

(***************************************************************************)
(* fetch_attendance: the client-side filter                                *)
(***************************************************************************)
\* dict.get(key, default); a missing type or name (None in the code) is read
\* as "", which equals no employee name and no record type
Get(m, key, default) == IF key \in DOMAIN m THEN m[key] ELSE default

\* the filter with the range bounds excluded
keep_exclusive(m, employee_name, from_date, to_date) ==
    /\ Get(m, "type", "") = "attendance"
    /\ StrLe(from_date, Get(m, "entry_date", <<>>))
    /\ from_date # Get(m, "entry_date", <<>>)
    /\ StrLe(Get(m, "entry_date", <<>>), to_date)
    /\ to_date # Get(m, "entry_date", <<>>)
    /\ Get(m, "name", "") = employee_name

\* the condition of the list comprehension
keep(m, employee_name, from_date, to_date) ==
    /\ Get(m, "type", "") = "attendance"
    /\ StrLe(from_date, Get(m, "entry_date", <<>>))
    /\ StrLe(Get(m, "entry_date", <<>>), to_date)
    /\ Get(m, "name", "") = employee_name

RECURSIVE filter_matches(_, _, _, _)
filter_matches(ms, employee_name, from_date, to_date) ==
    IF ms = <<>> THEN <<>>
    ELSE (IF keep(Head(ms).metadata, employee_name, from_date, to_date)
          THEN <<Head(ms).metadata>> ELSE <<>>)
         \o filter_matches(Tail(ms), employee_name, from_date, to_date)

(***************************************************************************)
(* State.                                                                  *)
(***************************************************************************)
VARIABLES
    pc,                   \* position of the script run: "ready" between runs
    hasKey,               \* PINECONE_API_KEY is set in the environment
    pinecone_initialized, \* the module global
    index,                \* the module global: "None" or "Index" (a handle)
    db,                   \* content of the hosted index: id -> vector, metadata
    db_before,            \* history: db when this run started (read by the properties only)
    req,                  \* the button pressed in this run and its inputs
    vector,               \* the embedding of this run, None before and on failure
    matches,              \* results['matches'] of this run's query
    attendance_data,      \* the list returned by fetch_attendance
    working_hours,        \* the hours this run computed, in display order
    log,                  \* the calls of this run, in order, with their outcome
    msgs                  \* what this run rendered with st.error/info/success/...

vars == <<pc, hasKey, pinecone_initialized, index, db, db_before, req, vector, matches,
          attendance_data, working_hours, log, msgs>>

\* variables of one run apart from pc, log and msgs
locals == <<req, vector, matches, attendance_data, working_hours>>

Call(op, ok) == [op |-> op, ok |-> ok]

NoRequest ==
    [kind |-> "none", data |-> <<>>, employee_name |-> "",
     from_date |-> <<>>, to_date |-> <<>>]

SubmitRequest(kind, data) ==
    [kind |-> kind, data |-> data, employee_name |-> "",
     from_date |-> <<>>, to_date |-> <<>>]

FetchRequest(kind, employee_name, from_date, to_date) ==
    [kind |-> kind, data |-> <<>>, employee_name |-> employee_name,
     from_date |-> date_isoformat(from_date), to_date |-> date_isoformat(to_date)]

IsSubmit == req.kind \in {"attendance", "leave"}

IsFetch == req.kind \in {"view", "download"}

Init ==
    /\ pc = "ready"
    /\ hasKey \in BOOLEAN
    /\ pinecone_initialized = FALSE
    /\ index = "None"
    /\ db \in {EmptyIndex, OldIndex}
    /\ db_before = db
    /\ req = NoRequest
    /\ vector = None
    /\ matches = <<>>
    /\ attendance_data = <<>>
    /\ working_hours = <<>>
    /\ log = <<>>
    /\ msgs = <<>>

(***************************************************************************)
(* A script run: module level, then main().                                *)
(***************************************************************************)
\* Streamlit executes the script from the top on every interaction, so the
\* module-level assignments run again.
Rerun ==
    /\ pc = "ready"
    /\ pc' = "main"
    /\ pinecone_initialized' = FALSE
    /\ index' = "None"
    /\ req' = NoRequest
    /\ vector' = None
    /\ matches' = <<>>
    /\ attendance_data' = <<>>
    /\ working_hours' = <<>>
    /\ log' = <<>>
    /\ msgs' = <<>>
    /\ db_before' = db
    /\ UNCHANGED <<hasKey, db>>

MainNoKey ==
    /\ pc = "main"
    /\ ~pinecone_initialized
    /\ ~hasKey
    /\ msgs' = Append(msgs, "Pinecone API key not found in environment variables.")
    /\ pc' = "ready"
    /\ UNCHANGED <<hasKey, pinecone_initialized, index, db_before, db, log>>
    /\ UNCHANGED locals

\* outcome: "init_raises" (pinecone.init or pinecone.Index raises),
\* "stats_raises" (describe_index_stats raises) or "ok"
init_pinecone(outcome) ==
    /\ pc = "main"
    /\ ~pinecone_initialized
    /\ hasKey
    /\ IF outcome = "init_raises"
       THEN /\ log' = Append(log, Call("pinecone.init", FALSE))
            /\ UNCHANGED <<index, pinecone_initialized>>
            /\ msgs' = Append(msgs, "Error connecting to Pinecone")
       ELSE IF outcome = "stats_raises"
       THEN /\ log' = log \o <<Call("pinecone.init", TRUE),
                               Call("describe_index_stats", FALSE)>>
            /\ index' = "Index"
            /\ UNCHANGED pinecone_initialized
            /\ msgs' = Append(msgs, "Error connecting to Pinecone")
       ELSE /\ log' = log \o <<Call("pinecone.init", TRUE),
                               Call("describe_index_stats", TRUE)>>
            /\ index' = "Index"
            /\ pinecone_initialized' = TRUE
            /\ msgs' = Append(msgs, "Connected to Pinecone index successfully")
    /\ pc' = "menu"
    /\ UNCHANGED <<hasKey, db, db_before>>
    /\ UNCHANGED locals

\* a run in which no button is pressed
Render ==
    /\ pc = "menu"
    /\ pc' = "ready"
    /\ UNCHANGED <<hasKey, pinecone_initialized, index, db_before, db, log, msgs>>
    /\ UNCHANGED locals

SubmitAttendance(name, entry_date, entry_time, exit_time, now) ==
    /\ pc = "menu"
    /\ req' = SubmitRequest("attendance",
                 AttendanceData(now, name, entry_date, entry_time, exit_time))
    /\ pc' = "embed"
    /\ UNCHANGED <<hasKey, pinecone_initialized, index, db_before, db, log, msgs>>
    /\ UNCHANGED <<vector, matches, attendance_data, working_hours>>

SubmitLeave(name, leave_from, leave_to, purpose, now) ==
    /\ pc = "menu"
    /\ IF name # "" /\ NAME_EMAIL_MAPPING[name] # "" /\ purpose # ""
       THEN /\ req' = SubmitRequest("leave",
                         LeaveData(now, name, leave_from, leave_to, purpose))
            /\ pc' = "embed"
            /\ UNCHANGED msgs
       ELSE /\ req' = SubmitRequest("leave", <<>>)
            /\ msgs' = Append(msgs, "Please fill in all required fields.")
            /\ pc' = "ready"
    /\ UNCHANGED <<hasKey, pinecone_initialized, index, db_before, db, log>>
    /\ UNCHANGED <<vector, matches, attendance_data, working_hours>>

\* button: "view" or "download"
FetchButton(button, employee_name, from_date, to_date) ==
    /\ pc = "menu"
    /\ req' = FetchRequest(button, employee_name, from_date, to_date)
    /\ pc' = "embed"
    /\ UNCHANGED <<hasKey, pinecone_initialized, index, db_before, db, log, msgs>>
    /\ UNCHANGED <<vector, matches, attendance_data, working_hours>>

(***************************************************************************)
(* The steps of a button action.                                           *)
(***************************************************************************)
\* "if vector:" taken also for None
TruthyAlways(v) == TRUE

\* "if vector:" and "if query_vector:"
Truthy(v) == v # None

\* where a run continues after create_embedding failed, were it to call again
EmbeddingRetryPc == "embed"

\* where a run continues after create_embedding returned None: nothing more
\* is called
EmbeddingFailedPc == "ready"

\* the default of entry.get('entry_time', 'N/A')
NotAvailable == <<"N", "/", "A">>

\* the loop of View Attendance over the entries
ViewHours(data) ==
    [i \in 1..Len(data) |->
        calculate_working_hours(Get(data[i], "entry_time", NotAvailable),
                                Get(data[i], "exit_time", NotAvailable))]

\* what View Attendance and Download Attendance render for the fetched list
FetchMessages(kind, data) ==
    IF data # <<>>
    THEN IF kind = "view" THEN <<"Attendance for employee">>
                          ELSE <<"Download Excel File">>
    ELSE IF kind = "view"
         THEN <<"No attendance data found in the selected date range.">>
         ELSE <<"No attendance data available for download.">>

\* result: a vector of Vectors, or None when the embedding call raised
create_embedding(result) ==
    /\ pc = "embed"
    /\ log' = Append(log, Call("create_embedding", result # None))
    /\ vector' = result
    /\ IF Truthy(result)
       THEN /\ pc' = IF IsSubmit THEN "store" ELSE "query"
            /\ UNCHANGED msgs
       ELSE /\ pc' = EmbeddingFailedPc
            /\ msgs' = msgs \o <<"Error creating embedding">>
                        \o (IF IsSubmit THEN <<"Failed to create embedding.">>
                                        ELSE FetchMessages(req.kind, <<>>))
    /\ UNCHANGED <<hasKey, pinecone_initialized, index, db_before, db, req>>
    /\ UNCHANGED <<matches, attendance_data, working_hours>>

\* the guard of store_in_pinecone never taken
NeverUninitialized(flag) == FALSE

\* "if not pinecone_initialized:" in store_in_pinecone
NotInitialized(flag) == ~flag

\* every value of data is a str and none is None, so str(v) is v
string_data(data) == [k \in DOMAIN data |-> data[k]]

\* the submit continues with the chat call whatever store_in_pinecone returned
StoredPcIgnored(stored) == "chat"

\* "if store_in_pinecone(data, vector):"
StoredPc(stored) == IF stored THEN "chat" ELSE "ready"

\* ok: index.upsert returned (TRUE) or raised (FALSE); past the guard index
\* is the handle init_pinecone set
store_in_pinecone(ok) ==
    /\ pc = "store"
    /\ IF NotInitialized(pinecone_initialized)
       THEN /\ log' = Append(log, Call("store_in_pinecone", FALSE))
            /\ msgs' = msgs \o <<"Pinecone is not initialized. Data will not be stored.",
                                 "Failed to store data in Pinecone.">>
            /\ pc' = StoredPc(FALSE)
            /\ UNCHANGED db
       ELSE IF ok
       THEN /\ db' = upsert(db, string_data(req.data).timestamp, vector,
                            string_data(req.data))
            /\ log' = log \o <<Call("index.upsert", TRUE),
                               Call("store_in_pinecone", TRUE)>>
            /\ pc' = StoredPc(TRUE)
            /\ UNCHANGED msgs
       ELSE /\ log' = log \o <<Call("index.upsert", FALSE),
                               Call("store_in_pinecone", FALSE)>>
            /\ msgs' = msgs \o <<"Error storing data in Pinecone",
                                 "Failed to store data in Pinecone.">>
            /\ pc' = StoredPc(FALSE)
            /\ UNCHANGED db
    /\ UNCHANGED <<hasKey, pinecone_initialized, index, db_before, req>>
    /\ UNCHANGED <<vector, matches, attendance_data, working_hours>>

SuccessMessage(kind) ==
    IF kind = "attendance" THEN "Attendance recorded successfully!"
                           ELSE "Leave request submitted successfully!"

\* a failure of the chat call reaching the submit handler
SubmitMessagesChatFatal(kind, chat_ok) ==
    IF chat_ok THEN <<SuccessMessage(kind), "GPT-4 Analysis">>
               ELSE <<"Unable to generate analysis">>

\* what a submit renders after query_gpt returned: the success message and
\* the analysis, which is the text of the except branch when the call raised
SubmitMessages(kind, chat_ok) ==
    <<SuccessMessage(kind),
      IF chat_ok THEN "GPT-4 Analysis" ELSE "Unable to generate analysis">>

\* ok: the chat call returned (TRUE) or raised (FALSE).  Whatever is raised
\* inside the try block (the request, the attribute client.chat_completions,
\* the subscript message["content"]) is caught, so both outcomes are kept.
query_gpt(ok) ==
    /\ pc = "chat"
    /\ working_hours' =
          IF req.kind = "attendance"
          THEN <<calculate_working_hours(req.data.entry_time, req.data.exit_time)>>
          ELSE working_hours
    /\ log' = Append(log, Call("query_gpt", ok))
    /\ msgs' = msgs \o SubmitMessages(req.kind, ok)
    /\ pc' = "ready"
    /\ UNCHANGED <<hasKey, pinecone_initialized, index, db_before, db, req>>
    /\ UNCHANGED <<vector, matches, attendance_data>>

\* the rest of fetch_attendance and the button's rendering
\* ok: index.query returned (TRUE) or raised (FALSE)
index_query(ok) ==
    /\ pc = "query"
    /\ LET called == index # "None"
           found  == IF called /\ ok THEN query(db, vector, TopK) ELSE <<>>
           data   == filter_matches(found, req.employee_name, req.from_date, req.to_date)
       IN  /\ log' = IF called THEN Append(log, Call("index.query", ok)) ELSE log
           /\ matches' = found
           /\ attendance_data' = data
           /\ msgs' = msgs
                       \o (IF called /\ ok THEN <<>>
                           ELSE <<"An error occurred while querying Pinecone">>)
                       \o FetchMessages(req.kind, data)
           /\ working_hours' = IF req.kind = "view" THEN ViewHours(data) ELSE <<>>
    /\ pc' = "ready"
    /\ UNCHANGED <<hasKey, pinecone_initialized, index, db_before, db, req, vector>>

Next ==
    \/ Rerun
    \/ MainNoKey
    \/ \E outcome \in {"init_raises", "stats_raises", "ok"} : init_pinecone(outcome)
    \/ Render
    \/ \E form \in AttendanceForms, now \in Stamps :
          SubmitAttendance(form[1], form[2], form[3], form[4], now)
    \/ \E name \in LeaveNames, leave_from \in LeaveDates, leave_to \in LeaveDates,
          purpose \in Purposes, now \in Stamps :
          SubmitLeave(name, leave_from, leave_to, purpose, now)
    \/ \E button \in {"view", "download"}, employee_name \in Names,
          from_date \in Dates, to_date \in Dates :
          FetchButton(button, employee_name, from_date, to_date)
    \/ \E result \in Vectors \cup {None} : create_embedding(result)
    \/ \E ok \in BOOLEAN : store_in_pinecone(ok)
    \/ \E ok \in BOOLEAN : query_gpt(ok)
    \/ \E ok \in BOOLEAN : index_query(ok)

Spec == Init /\ [][Next]_vars

(***************************************************************************)
(* calculate_working_hours on its own: the arguments are drawn from        *)
(* TimeStrings and the function is applied once.                           *)
(***************************************************************************)
\* clock times whose isoformat() is passed
ClockTimes ==
    {Time(0, 0, 0), Time(9, 0, 0), Time(9, 0, 1), Time(17, 30, 0), Time(23, 59, 59)}

\* strings that are no "HH:MM:SS" time: the 'N/A' default, the empty string,
\* "09:00", "24:00:00", "12:60:00", "12:00:60" and "09:00:00.5"
MalformedTimes ==
    { NotAvailable,
      <<>>,
      <<"0", "9", ":", "0", "0">>,
      <<"2", "4", ":", "0", "0", ":", "0", "0">>,
      <<"1", "2", ":", "6", "0", ":", "0", "0">>,
      <<"1", "2", ":", "0", "0", ":", "6", "0">>,
      <<"0", "9", ":", "0", "0", ":", "0", "0", ".", "5">> }

\* "9:5:3": fields without padding, which strptime accepts
TimeStrings ==
    {time_isoformat(t) : t \in ClockTimes}
    \cup MalformedTimes
    \cup {<<"9", ":", "5", ":", "3">>}

HoursInit ==
    /\ pc = "call"
    /\ hasKey = TRUE
    /\ pinecone_initialized = FALSE
    /\ index = "None"
    /\ db = EmptyIndex
    /\ db_before = db
    /\ \E entry_time \in TimeStrings, exit_time \in TimeStrings :
          req = [kind |-> "calculate_working_hours",
                 data |-> [entry_time |-> entry_time, exit_time |-> exit_time],
                 employee_name |-> "", from_date |-> <<>>, to_date |-> <<>>]
    /\ vector = None
    /\ matches = <<>>
    /\ attendance_data = <<>>
    /\ working_hours = <<>>
    /\ log = <<>>
    /\ msgs = <<>>

HoursCall ==
    /\ pc = "call"
    /\ working_hours' = <<calculate_working_hours(req.data.entry_time, req.data.exit_time)>>
    /\ pc' = "returned"
    /\ UNCHANGED <<hasKey, pinecone_initialized, index, db_before, db, req>>
    /\ UNCHANGED <<vector, matches, attendance_data, log, msgs>>

HoursNext == HoursCall

SpecHours == HoursInit /\ [][HoursNext]_vars

(***************************************************************************)
(* fetch_attendance on its own: the index content, the handle and the      *)
(* arguments are drawn from bounded sets and the function runs once.       *)
(***************************************************************************)
\* largest number of records of an index content drawn for fetch_attendance
MaxRecords == 2

\* an attendance record stored without entry_date
UndatedAttendance(timestamp, name) ==
    [ timestamp  |-> timestamp,
      type       |-> "attendance",
      name       |-> name,
      email      |-> NAME_EMAIL_MAPPING[name],
      entry_time |-> time_isoformat(Time(9, 0, 0)),
      exit_time  |-> time_isoformat(Time(17, 30, 0)) ]

\* the kinds of record an index content is drawn from
RecordKinds ==
    {<<"attendance", n, d>> : n \in Names, d \in Dates}
    \cup {<<"undated", n, Date(2024, 1, 9)>> : n \in Names}
    \cup {<<"leave", "Nandhakumar", Date(2024, 1, 9)>>}

RecordOf(kind, timestamp) ==
    IF kind[1] = "attendance"
    THEN AttendanceData(timestamp, kind[2], kind[3], Time(9, 0, 0), Time(17, 30, 0))
    ELSE IF kind[1] = "undated"
    THEN UndatedAttendance(timestamp, kind[2])
    ELSE LeaveData(timestamp, kind[2], kind[3], kind[3], "family event")

FetchIndexes ==
    { [i \in DOMAIN f |-> [vector |-> f[i][2], metadata |-> RecordOf(f[i][1], i)]] :
        f \in UNION {[1..n -> RecordKinds \X Vectors] : n \in 0..MaxRecords} }

FetchInit ==
    /\ pc = "embed"
    /\ hasKey = TRUE
    /\ index \in {"None", "Index"}
    /\ pinecone_initialized = (index = "Index")
    /\ db \in FetchIndexes
    /\ db_before = db
    /\ \E button \in {"view", "download"}, employee_name \in Names,
          from_date \in Dates, to_date \in Dates :
          req = FetchRequest(button, employee_name, from_date, to_date)
    /\ vector = None
    /\ matches = <<>>
    /\ attendance_data = <<>>
    /\ working_hours = <<>>
    /\ log = <<>>
    /\ msgs = <<>>

FetchNext ==
    \/ \E result \in Vectors \cup {None} : create_embedding(result)
    \/ \E ok \in BOOLEAN : index_query(ok)

SpecFetch == FetchInit /\ [][FetchNext]_vars

(***************************************************************************)
(* Properties.                                                             *)
(***************************************************************************)
HasCall(op, ok) == \E i \in 1..Len(log) : log[i] = Call(op, ok)

Called(op) == \E i \in 1..Len(log) : log[i].op = op

Count(op) == Cardinality({i \in 1..Len(log) : log[i].op = op})

Shown(m) == \E i \in 1..Len(msgs) : msgs[i] = m

SuccessShown ==
    \/ Shown("Attendance recorded successfully!")
    \/ Shown("Leave request submitted successfully!")

\* a button action of the given kinds has run to its end
Finished(kinds) == pc = "ready" /\ req.kind \in kinds

\* the record a submit builds is in the index under its timestamp
Stored ==
    /\ req.data.timestamp \in DOMAIN db
    /\ db[req.data.timestamp] = [vector |-> vector, metadata |-> req.data]

\* C1: in a run, store_in_pinecone and the upsert come only after a
\* create_embedding that returned a vector, and query_gpt only after an upsert
\* that returned and a store_in_pinecone that returned True, all in a submit.
C1_CallOrder ==
    \A i \in 1..Len(log) :
        /\ log[i].op \in {"store_in_pinecone", "index.upsert"} =>
              /\ IsSubmit
              /\ \E j \in 1..(i - 1) : log[j] = Call("create_embedding", TRUE)
        /\ log[i].op = "query_gpt" =>
              /\ IsSubmit
              /\ \E j \in 1..(i - 1) :
                    /\ log[j] = Call("store_in_pinecone", TRUE)
                    /\ \E k \in 1..(j - 1) : log[k] = Call("index.upsert", TRUE)
                    /\ \E k \in 1..(j - 1) : log[k] = Call("create_embedding", TRUE)

C1_Witness ==
    /\ Finished({"attendance", "leave"})
    /\ Called("query_gpt")
    /\ HasCall("index.upsert", TRUE)

\* C2: a step never removes a record from the index and never changes the
\* vector or the metadata an id holds.
C2_NeverOverwritten ==
    [][\A id \in DOMAIN db : id \in DOMAIN db' /\ db'[id] = db[id]]_vars

\* C3: in a submit, once create_embedding returned None nothing is stored and
\* no chat call is made; once the upsert raised store_in_pinecone returned
\* False and no chat call is made; in both cases the index is as it was when
\* the run started, the success message is not shown and the action ends
\* with its error message.
C3_FailureAborts ==
    IsSubmit =>
        /\ HasCall("create_embedding", FALSE) =>
              /\ ~Called("store_in_pinecone") /\ ~Called("index.upsert")
              /\ ~Called("query_gpt")
              /\ db = db_before
              /\ ~SuccessShown
              /\ pc = "ready"
              /\ Shown("Error creating embedding")
              /\ Shown("Failed to create embedding.")
        /\ HasCall("index.upsert", FALSE) =>
              /\ HasCall("store_in_pinecone", FALSE)
              /\ ~Called("query_gpt")
              /\ db = db_before
              /\ ~SuccessShown
              /\ pc = "ready"
              /\ Shown("Error storing data in Pinecone")
              /\ Shown("Failed to store data in Pinecone.")

C3_Witness ==
    /\ Finished({"attendance", "leave"})
    /\ HasCall("create_embedding", TRUE)
    /\ HasCall("index.upsert", FALSE)
    /\ db # EmptyIndex

\* C4: a run makes each of the embedding call, the upsert, the index query
\* and the chat call at most once.
C4_NoRetry ==
    \A op \in {"create_embedding", "index.upsert", "index.query", "query_gpt"} :
        Count(op) <= 1

C4_Witness ==
    /\ Finished({"view", "download"})
    /\ HasCall("create_embedding", TRUE)
    /\ HasCall("index.query", FALSE)

\* C5: once the upsert of a submit returned, the record is in the index at
\* every later point of the run, and the finished run has made the chat
\* call and shows the success message and no error, whether the chat call
\* returned or raised; when it raised the analysis shown is the text
\* "Unable to generate analysis".
C5_ChatOptional ==
    (IsSubmit /\ HasCall("index.upsert", TRUE)) =>
        /\ Stored
        /\ pc \in {"chat", "ready"}
        /\ pc = "ready" =>
              /\ Called("query_gpt")
              /\ Shown(SuccessMessage(req.kind))
              /\ ~Shown("Failed to store data in Pinecone.")
              /\ ~Shown("Failed to create embedding.")
              /\ HasCall("query_gpt", FALSE) => Shown("Unable to generate analysis")
              /\ HasCall("query_gpt", TRUE) => Shown("GPT-4 Analysis")

C5_Witness ==
    /\ Finished({"attendance", "leave"})
    /\ HasCall("query_gpt", FALSE)
    /\ SuccessShown
    /\ Stored

\* calendar order of two dates
DateLe(a, b) ==
    \/ a.year < b.year
    \/ a.year = b.year /\ a.month < b.month
    \/ a.year = b.year /\ a.month = b.month /\ a.day <= b.day

\* m is an attendance record of the selected employee dated, by the
\* calendar, within the selected range
Qualifies(m) ==
    /\ m.type = "attendance"
    /\ m.name = req.employee_name
    /\ "entry_date" \in DOMAIN m
    /\ \E d \in Dates, f \in Dates, t \in Dates :
          /\ m.entry_date = date_isoformat(d)
          /\ req.from_date = date_isoformat(f)
          /\ req.to_date = date_isoformat(t)
          /\ DateLe(f, d) /\ DateLe(d, t)

Metas(ms) == [i \in 1..Len(ms) |-> ms[i].metadata]

FetchFailed ==
    \/ HasCall("create_embedding", FALSE)
    \/ HasCall("index.query", FALSE)
    \/ ~Called("index.query")

\* C6: the list fetch_attendance returns is the metadata of the matches that
\* are attendance records of the employee dated within the range, bounds
\* included, in the order of the matches; a record without entry_date, a
\* leave record, a record of another employee or of another date is not in
\* it; it is empty when the embedding failed or the query raised.
C6_FetchFilter ==
    Finished({"view", "download"}) =>
        /\ attendance_data = SelectSeq(Metas(matches), Qualifies)
        /\ FetchFailed => attendance_data = <<>> /\ matches = <<>>
        /\ HasCall("index.query", TRUE) => Len(matches) = Cardinality(DOMAIN db)

C6_Witness ==
    /\ Finished({"view", "download"})
    /\ Len(matches) = 2
    /\ Len(attendance_data) = 1
    /\ attendance_data[1] = matches[2].metadata
    /\ req.from_date = attendance_data[1].entry_date
    /\ matches[1].metadata.type = "attendance"

\* C7: after a view or download whose embedding and query calls returned,
\* every attendance record of the index that is of the selected employee
\* and dated within the range is in the list shown, and the "no attendance
\* data" message or warning appears only when the index holds none.
C7_ViewComplete ==
    (/\ Finished({"view", "download"})
     /\ HasCall("create_embedding", TRUE)
     /\ HasCall("index.query", TRUE)) =>
        /\ \A id \in DOMAIN db :
              Qualifies(db[id].metadata) =>
                 \E i \in 1..Len(attendance_data) : attendance_data[i] = db[id].metadata
        /\ (\/ Shown("No attendance data found in the selected date range.")
            \/ Shown("No attendance data available for download."))
              => ~\E id \in DOMAIN db : Qualifies(db[id].metadata)

\* init_pinecone ran in this run and left pinecone_initialized False
InitFailed == hasKey /\ ~pinecone_initialized /\ Called("pinecone.init")

C8_NoUpsertUninitialized == ~pinecone_initialized => ~Called("index.upsert")

C8_NoKey ==
    ~hasKey =>
        /\ pc \in {"ready", "main"}
        /\ log = <<>>
        /\ req = NoRequest
        /\ ~pinecone_initialized

C8_Initialized ==
    pinecone_initialized => HasCall("describe_index_stats", TRUE) /\ index = "Index"

\* C8 as stated: no upsert while pinecone_initialized is False; without the
\* key no menu and no call; after a failed init_pinecone every finished
\* submit (of a complete form, one that went on to the embedding call) shows
\* the warning and "Failed to store data in Pinecone.", leaves the index
\* unchanged and shows no success message; pinecone_initialized is True only
\* after describe_index_stats succeeded, with index set.
C8_EverySubmitFailsToStore ==
    /\ C8_NoUpsertUninitialized
    /\ C8_NoKey
    /\ C8_Initialized
    /\ (InitFailed /\ Finished({"attendance", "leave"}) /\ Called("create_embedding")) =>
          /\ Shown("Pinecone is not initialized. Data will not be stored.")
          /\ Shown("Failed to store data in Pinecone.")
          /\ db = db_before
          /\ ~SuccessShown

\* C8 amended: as above, but after a failed init_pinecone it is every submit
\* that reaches store_in_pinecone (its form complete and its embedding
\* created) that ends with the warning and "Failed to store data in
\* Pinecone."; every submit leaves the index unchanged, makes no chat call
\* and shows no success message.
C8_Uninitialized ==
    /\ C8_NoUpsertUninitialized
    /\ C8_NoKey
    /\ C8_Initialized
    /\ (InitFailed /\ IsSubmit) =>
          /\ db = db_before
          /\ ~SuccessShown
          /\ ~Called("query_gpt")
          /\ pc # "chat"
          /\ (pc = "ready" /\ HasCall("create_embedding", TRUE)) =>
                /\ HasCall("store_in_pinecone", FALSE)
                /\ Shown("Pinecone is not initialized. Data will not be stored.")
                /\ Shown("Failed to store data in Pinecone.")

C8_Witness ==
    /\ InitFailed
    /\ index = "Index"
    /\ Finished({"attendance", "leave"})
    /\ HasCall("store_in_pinecone", FALSE)
    /\ Shown("Failed to store data in Pinecone.")

Seconds(t) == t.hour * 3600 + t.minute * 60 + t.second

\* C9: calculate_working_hours never returns a negative value; for the
\* isoformat of two clock times it returns exit - entry (in seconds over
\* 3600) when exit is not before entry and 0 when it is; it returns 0 when
\* either argument is no "HH:MM:SS" time.
C9_WorkingHours ==
    pc = "returned" =>
        LET r == working_hours[1]
            entry_time == req.data.entry_time
            exit_time == req.data.exit_time
        IN  /\ r >= 0
            /\ \A te \in ClockTimes, tx \in ClockTimes :
                  (entry_time = time_isoformat(te) /\ exit_time = time_isoformat(tx)) =>
                     r = IF Seconds(tx) >= Seconds(te)
                         THEN Seconds(tx) - Seconds(te) ELSE 0
            /\ (entry_time \in MalformedTimes \/ exit_time \in MalformedTimes) => r = 0

C9_Witness ==
    /\ pc = "returned"
    /\ req.data.entry_time = time_isoformat(Time(17, 30, 0))
    /\ req.data.exit_time = time_isoformat(Time(9, 0, 0))
    /\ working_hours = <<0>>

\* C10: the steps of a view or download leave the index and
\* pinecone_initialized unchanged; the index changes only in the step of a
\* submit whose embedding and upsert both succeeded; that step adds one
\* record, under the submission's timestamp, holding the embedding and the
\* form data as strings, and leaves every other record as it was.
C10_ReadOnlyAndAddsOne ==
    [][ /\ (IsFetch \/ req'.kind \in {"view", "download"}) =>
              /\ db' = db
              /\ (pc # "ready" => pinecone_initialized' = pinecone_initialized)
        /\ db' # db =>
              /\ pc = "store" /\ IsSubmit
              /\ HasCall("create_embedding", TRUE)
              /\ \E i \in 1..Len(log') : log'[i] = Call("index.upsert", TRUE)
        /\ (pc = "store" /\ pc' = "chat") =>
              /\ req.data.timestamp \notin DOMAIN db
              /\ DOMAIN db' = DOMAIN db \cup {req.data.timestamp}
              /\ db'[req.data.timestamp] = [vector |-> vector, metadata |-> req.data]
              /\ \A id \in DOMAIN db : db'[id] = db[id]
      ]_vars

\* What holds of the index under upsert: the storing step of a submit writes
\* the record under the submission's timestamp and leaves every record under
\* another id as it was, whether or not the timestamp was already in use.
FrameUnderUpsert ==
    [][ /\ (IsFetch \/ req'.kind \in {"view", "download"}) => db' = db
        /\ db' # db => pc = "store" /\ IsSubmit /\ HasCall("create_embedding", TRUE)
        /\ (pc = "store" /\ pc' = "chat") =>
              /\ DOMAIN db' = DOMAIN db \cup {req.data.timestamp}
              /\ db'[req.data.timestamp] = [vector |-> vector, metadata |-> req.data]
              /\ \A id \in DOMAIN db \ {req.data.timestamp} : db'[id] = db[id]
      ]_vars

====
